---- MODULE Spec2Model ----
(***************************************************************************)
(* Bulk dispatch engine of the WhatsApp backend.                           *)
(*                                                                         *)
(* Two code paths run the same batch / chunk / worker loop over a list of  *)
(* recipients:                                                             *)
(*   - "service": processBulkMessage + processBulkMessagesInBackground +   *)
(*     processBatchWithConcurrency (src/src/services/csvProcessor.ts),     *)
(*   - "route":   POST /csv-bulk-document (src/src/routes/send.ts).        *)
(* One behaviour of the model is one run of one of them over one list.     *)
(*                                                                         *)
(* A storage call that throws is modelled as having written nothing.       *)
(* Array positions are 0-based as in the code; sequences are 1-based, so   *)
(* position p of an array is element p + 1 of the sequence.                *)
(***************************************************************************)
EXTENDS Integers, Sequences, FiniteSets, TLC

VARIABLES
  engine,       \* which code path runs: "service" or "route"
  recipients,   \* mobileNumbers / csvData.mobileNumbers
  pc,           \* position of the run
  op,           \* the BulkOperation record in the store
  doc,          \* the in-memory bulkOperation document
  logs,         \* the MessageLog collection in the store (id = index)
  batchIndex,   \* loop variable of the batch loop
  chunkIndex,   \* index of the current concurrency chunk in the batch
  createdLogs,  \* ids returned by insertMany for the current batch
  workers,      \* one async send task per batch position
  bulkUpdates,  \* updateOne operations collected for the current batch
  cnt,          \* processedCount / successCount / failedCount of the run
  bcnt,         \* successCount / failedCount local to processBatchWithConcurrency
  fallbackIdx,  \* loop position of the per-record fallback
  faults,       \* number of storage calls that have thrown
  engineFault,  \* the first storage call of the run that threw, or "none"
  persisted,    \* batch indexes whose outcome persistence step has finished
  started,      \* the run loop has been invoked for the created Operation
  msgType,      \* the send function the message data selects
  attempted,    \* recipients (positions of the list, from 1) given a gateway call
  gw,           \* recipients closed by their worker as sent / as failed
  bulkFailed,   \* batch indexes whose bulkWrite threw
  completedAtSets, \* number of assignments to bulkOperation.completedAt
  runs,         \* number of invocations of the run loop for the Operation
  received,     \* the last status callback the webhook received for each message id
  apiErrors,    \* error answers the WhatsApp API may still give (-1: any number)
  input,        \* the arguments of a helper function that is run on its own
  output,       \* what that helper function returned
  sectionPDF,   \* the stored section PDF the PDF routes are asked to send
  requests      \* the requests to the PDF routes that have arrived

vars == <<engine, recipients, pc, op, doc, logs, batchIndex, chunkIndex,
          createdLogs, workers, bulkUpdates, cnt, bcnt, fallbackIdx, faults,
          engineFault, persisted, started, msgType, attempted, gw, bulkFailed,
          completedAtSets, runs, received, apiErrors, input, output, sectionPDF, requests>>

(***************************************************************************)
(* Bounds of the model.                                                    *)
(***************************************************************************)
MaxRecipients == 6
MaxFaults == 2
\* Recipients of the runs that are checked together with status callbacks,
\* with every send function, or with a second invocation of the run loop.
MaxSmallRecipients == 2
\* Invocations of the run loop for one Operation.
MaxRuns == 2
\* Recipients of the runs of the service that go through four batches, and
\* the error answers the API gives during such a run.
MaxLongRecipients == 16
MaxApiErrors == 1

(***************************************************************************)
(* Pure helpers.                                                           *)
(***************************************************************************)
Min(a, b) == IF a < b THEN a ELSE b

\* A slice that leaves out its last element.
SliceShort(s, from, to) == [k \in 1..(Min(to - 1, Len(s)) - Min(from, Len(s))) |-> s[from + k]]

\* Array.prototype.slice(from, to) on 0-based positions.
Slice(s, from, to) == [k \in 1..(Min(to, Len(s)) - Min(from, Len(s))) |-> s[from + k]]

\* for (let i = 0; i < list.length; i += size) out.push(list.slice(i, i + size))
RECURSIVE SplitFrom(_, _, _)
SplitFrom(s, size, i) ==
  IF i < Len(s) THEN <<Slice(s, i, i + size)>> \o SplitFrom(s, size, i + size)
  ELSE <<>>

\* Array.prototype.indexOf: 0-based position of the first occurrence.
IndexOf(s, x) == CHOOSE i \in 0..(Len(s) - 1) : s[i + 1] = x /\ \A j \in 0..(i - 1) : s[j + 1] # x

\* The default configuration, whatever the count.
getDefaultConfig(messageCount) ==
  [CONCURRENCY_LIMIT |-> 5, BATCH_SIZE |-> 10, RATE_LIMIT_DELAY |-> 50]

getOptimalConfig(messageCount) ==
  IF messageCount <= 20 THEN [CONCURRENCY_LIMIT |-> 2, BATCH_SIZE |-> 5, RATE_LIMIT_DELAY |-> 200]
  ELSE IF messageCount <= 50 THEN [CONCURRENCY_LIMIT |-> 3, BATCH_SIZE |-> 8, RATE_LIMIT_DELAY |-> 150]
  ELSE IF messageCount <= 200 THEN [CONCURRENCY_LIMIT |-> 5, BATCH_SIZE |-> 15, RATE_LIMIT_DELAY |-> 100]
  ELSE IF messageCount <= 500 THEN [CONCURRENCY_LIMIT |-> 8, BATCH_SIZE |-> 25, RATE_LIMIT_DELAY |-> 75]
  ELSE IF messageCount <= 1000 THEN [CONCURRENCY_LIMIT |-> 10, BATCH_SIZE |-> 40, RATE_LIMIT_DELAY |-> 50]
  ELSE [CONCURRENCY_LIMIT |-> 12, BATCH_SIZE |-> 60, RATE_LIMIT_DELAY |-> 25]

\* The constants the route declares in place of getOptimalConfig.
RouteConfig == [CONCURRENCY_LIMIT |-> 5, BATCH_SIZE |-> 10, RATE_LIMIT_DELAY |-> 50]

config == IF engine = "service" THEN getOptimalConfig(Len(recipients)) ELSE RouteConfig

maxRetries == 2

batches == SplitFrom(recipients, config.BATCH_SIZE, 0)

batch == batches[batchIndex + 1]

concurrencyChunks == SplitFrom(batch, config.CONCURRENCY_LIMIT, 0)


(***************************************************************************)
(* Records.                                                                *)
(***************************************************************************)
NoOperation ==
  [status |-> "NONE", totalRecipients |-> 0, processedCount |-> 0,
   successCount |-> 0, failedCount |-> 0, error |-> "", completedAt |-> FALSE]

\* BulkOperationModel.create({... status: 'PENDING', processedCount: 0, ...})
NewOperation(total) ==
  [status |-> "PENDING", totalRecipients |-> total, processedCount |-> 0,
   successCount |-> 0, failedCount |-> 0, error |-> "", completedAt |-> FALSE]

\* One element of messageLogs: status 'QUEUED'. batchNo is the batch that
\* created it.
\* A record that is inserted as already sent.
NewLogSent(b) ==
  [status |-> "SENT", error |-> "", batchNo |-> b, waMessageId |-> 0,
   retryCount |-> 0]

\* waMessageId 0 stands for an unset id; retryCount has the schema default 0.
NewLog(b) ==
  [status |-> "QUEUED", error |-> "", batchNo |-> b, waMessageId |-> 0,
   retryCount |-> 0]

IdleWorker ==
  [st |-> "idle", retries |-> 0, calls |-> 0, backoffs |-> 0, first |-> "none",
   allTransient |-> TRUE, success |-> FALSE]

ZeroCounts == [processed |-> 0, success |-> 0, failed |-> 0]

\* What a gateway send function does on one call: it returns the response
\* with a message id, or throws (a timeout / 5xx, or an API error such as
\* "Phone number is not registered on WhatsApp").
GatewayOutcomes == {"ok", "transient", "permanent"}

\* What the WhatsApp API answers to one POST: a 2xx body with messages[0].id,
\* a 2xx body whose first message has no (or an empty) id, a 2xx body without
\* messages, an error response of the API, or no usable response at all
\* (timeout, connection error, 5xx).
RawResponses == {"accepted", "noId", "noMessages", "apiError", "networkError"}

\* The answers the API may give to the next call: once it has given all the
\* error answers it may give, it accepts.
ApiAnswers == IF apiErrors = 0 THEN {"accepted"} ELSE RawResponses

\* What the caller of a send function gets: the function threw or returned,
\* the kind of the outcome, and whether the returned body carries an id.
SendResult(threw, kind, hasId) == [threw |-> threw, kind |-> kind, hasId |-> hasId]

\* A send function that returns every 2xx body as it is.
ResponseUnchecked(raw) ==
  CASE raw = "accepted" -> SendResult(FALSE, "ok", TRUE)
    [] raw = "noId" -> SendResult(FALSE, "ok", FALSE)
    [] raw = "noMessages" -> SendResult(FALSE, "ok", FALSE)
    [] raw = "apiError" -> SendResult(TRUE, "permanent", FALSE)
    [] raw = "networkError" -> SendResult(TRUE, "transient", FALSE)

\* The tail the send functions share:
\*   if (res.data && res.data.messages && res.data.messages.length > 0) {
\*     if (message.id) return res.data; else throw new Error(...)
\*   } else throw new Error(...)
\* and, in the catch block, an API error rethrown as a new Error and every
\* other error rethrown as it is. A 2xx body without a message id is a
\* failure that no later attempt can repair: its kind is "permanent".
ResponseCheck(raw) ==
  CASE raw = "accepted" -> SendResult(FALSE, "ok", TRUE)
    [] raw = "noId" -> SendResult(TRUE, "permanent", FALSE)
    [] raw = "noMessages" -> SendResult(TRUE, "permanent", FALSE)
    [] raw = "apiError" -> SendResult(TRUE, "permanent", FALSE)
    [] raw = "networkError" -> SendResult(TRUE, "transient", FALSE)

sendText(raw) == ResponseCheck(raw)

sendImage(raw) == ResponseCheck(raw)

sendDocument(raw) == ResponseCheck(raw)

sendDocumentByMediaId(raw) == ResponseCheck(raw)

\* The send functions the message data can select: switch (type), and for a
\* DOCUMENT, if (mediaId).
MessageTypes == {"TEXT", "IMAGE", "DOCUMENT_URL", "DOCUMENT_ID"}

Send(type, raw) ==
  CASE type = "TEXT" -> sendText(raw)
    [] type = "IMAGE" -> sendImage(raw)
    [] type = "DOCUMENT_URL" -> sendDocument(raw)
    [] type = "DOCUMENT_ID" -> sendDocumentByMediaId(raw)

\* error?.response?.data ? JSON.stringify(error.response.data) : String(error)
\* The text of a thrown Error is "Error: " followed by its message; the
\* message itself is not modelled.
ErrorDetail(kind) == IF kind = "ok" THEN "" ELSE "Error: message"

\* A storage call returns (TRUE) or throws (FALSE).
StorageOutcomes == IF faults < MaxFaults THEN {TRUE, FALSE} ELSE {TRUE}

Thrown(ok) == IF ok THEN 0 ELSE 1

\* The storage call of the run that threw first (the bulk update and its
\* fallback, whose errors are caught on the spot, are not recorded).
FirstFault(ok, call) == IF ok \/ engineFault # "none" THEN engineFault ELSE call

\* Recipient lists: n numbers, all different, or with the last one repeating
\* the first one.
RecipientList(n, dup) == [i \in 1..n |-> IF dup /\ i = n THEN 1 ELSE i]

RecipientLists ==
  {RecipientList(n, FALSE) : n \in 0..MaxRecipients}
    \cup {RecipientList(n, TRUE) : n \in 2..MaxRecipients}

(***************************************************************************)
(* Positions of the batch, chunks and the record a worker writes to.       *)
(***************************************************************************)
Positions == 0..(Len(batch) - 1)

\* The positions of the batch that chunk c holds.
ChunkPositions(c) ==
  {p \in Positions : c * config.CONCURRENCY_LIMIT <= p /\ p < (c + 1) * config.CONCURRENCY_LIMIT}

\* The second argument of the chunk.map callback: the position inside the chunk.
IndexInChunk(p) == p % config.CONCURRENCY_LIMIT

\* The position in the input list (from 1) of the recipient at batch
\* position p of the current batch.
GlobalIndex(p) == batchIndex * config.BATCH_SIZE + p + 1

\* The id the API gives the message it accepts for batch position p: ids of
\* different accepted messages differ.
MessageId(p) == (runs - 1) * Len(recipients) + GlobalIndex(p)

\* result?.messages?.[0]?.id, 0 when the body carries none.
ReturnedId(res, p) == IF res.hasId THEN MessageId(p) ELSE 0

\* const messageLog = createdLogs[index]                      (service)
\* const messageLog = createdLogs[batch.indexOf(mobileNumber)] (route)
WorkerLog(p) ==
  IF engine = "service" THEN createdLogs[IndexInChunk(p) + 1]
  ELSE createdLogs[IndexOf(batch, batch[p + 1]) + 1]

\* A retry loop that stops one attempt early.
WillRetryOffByOne(retries) == engine = "service" /\ retries < maxRetries

\* The retry loop goes round again after a throw unless retries > maxRetries;
\* the route has no retry loop.
WillRetry(retries) == engine = "service" /\ retries <= maxRetries

\* Where a fault of the engine goes: the catch block of the service, the
\* outer catch of the route (a 500 response, nothing stored).
OnFault == IF engine = "service" THEN "catch" ELSE "done"

\* $set of one updateOne operation: status and updatedAt, with error for a
\* failure and waMessageId for a success.
ApplyUpdate(ls, u) ==
  [ls EXCEPT ![u.id] = [@ EXCEPT !.status = u.status,
                                 !.error = IF u.status = "FAILED" THEN u.error ELSE @,
                                 !.waMessageId = IF u.status = "SENT" THEN u.waMessageId ELSE @]]

RECURSIVE ApplyAll(_, _)
ApplyAll(ls, us) == IF us = <<>> THEN ls ELSE ApplyAll(ApplyUpdate(ls, Head(us)), Tail(us))

(***************************************************************************)
(* Initial state: nothing created yet.                                     *)
(***************************************************************************)
\* Nothing has been created or counted.
Fresh ==
  /\ pc = "create"
  /\ op = NoOperation
  /\ doc = NoOperation
  /\ logs = <<>>
  /\ batchIndex = 0
  /\ chunkIndex = 0
  /\ createdLogs = <<>>
  /\ workers = <<>>
  /\ bulkUpdates = <<>>
  /\ cnt = ZeroCounts
  /\ bcnt = ZeroCounts
  /\ fallbackIdx = 0
  /\ faults = 0
  /\ engineFault = "none"
  /\ persisted = {}
  /\ started = FALSE
  /\ attempted = {}
  /\ gw = [ok |-> 0, failed |-> 0]
  /\ bulkFailed = {}
  /\ completedAtSets = 0
  /\ runs = 0
  /\ received = {}

Start ==
  /\ engine \in {"service", "route"}
  /\ recipients \in RecipientLists
  /\ (engine = "route" => Len(recipients) > 0)
  /\ Fresh

\* The route sends its document by media id; the service is run here with a
\* text message (the other send functions are run by InitGateway).
\* No helper function is run on its own beside a run of the engine.
NoCall ==
  /\ input = <<>>
  /\ output = <<>>

\* A section PDF as the upload route stores it: status 'UPLOADED'.
StoredPDF == [status |-> "UPLOADED", exists |-> TRUE]

\* No request to a PDF route has arrived.
NoRequests ==
  /\ sectionPDF = StoredPDF
  /\ requests = <<>>

\* Nothing is assumed about how often the WhatsApp API answers with an error.
AnyApi == apiErrors = -1

Init ==
  /\ Start
  /\ NoCall
  /\ NoRequests
  /\ AnyApi
  /\ msgType = IF engine = "route" THEN "DOCUMENT_ID" ELSE "TEXT"


(***************************************************************************)
(* The run: creation, start, batch loop, terminal saves.                   *)
(***************************************************************************)
\* processBulkMessage / the route: BulkOperationModel.create, then the run
\* loop is invoked. A create that throws ends the request.
CreateOperation ==
  /\ pc = "create"
  /\ \E ok \in StorageOutcomes :
       /\ faults' = faults + Thrown(ok)
       /\ op' = IF ok THEN NewOperation(Len(recipients)) ELSE op
       /\ doc' = IF ok /\ engine = "route" THEN NewOperation(Len(recipients)) ELSE doc
       /\ started' = ok
       /\ runs' = IF ok THEN 1 ELSE runs
       /\ pc' = IF ~ok THEN "done" ELSE IF engine = "service" THEN "find" ELSE "saveProcessing"
  /\ UNCHANGED <<engine, recipients, logs, batchIndex, chunkIndex, createdLogs,
                 workers, bulkUpdates, cnt, bcnt, fallbackIdx, engineFault, persisted,
                 msgType, attempted, gw, bulkFailed, completedAtSets,
                 apiErrors, received, input, output, sectionPDF, requests>>

\* const bulkOperation = await BulkOperationModel.findById(operationId)
FindOperation ==
  /\ pc = "find"
  /\ \E ok \in StorageOutcomes :
       /\ faults' = faults + Thrown(ok)
       /\ doc' = IF ok THEN op ELSE doc
       /\ engineFault' = FirstFault(ok, "findById")
       /\ pc' = IF ok THEN "saveProcessing" ELSE "done"
  /\ UNCHANGED <<engine, recipients, op, logs, batchIndex, chunkIndex, createdLogs,
                 workers, bulkUpdates, cnt, bcnt, fallbackIdx, persisted, started,
                 msgType, attempted, gw, bulkFailed, completedAtSets, runs,
                 apiErrors, received, input, output, sectionPDF, requests>>

\* bulkOperation.status = 'PROCESSING'; await bulkOperation.save();
\* The save is outside every try block of the service; in the route a throw
\* reaches the outer catch.
SaveProcessing ==
  /\ pc = "saveProcessing"
  /\ doc' = [doc EXCEPT !.status = "PROCESSING"]
  /\ \E ok \in StorageOutcomes :
       /\ faults' = faults + Thrown(ok)
       /\ op' = IF ok THEN doc' ELSE op
       /\ engineFault' = FirstFault(ok, "saveProcessing")
       /\ pc' = IF ok THEN "batch" ELSE "done"
  /\ UNCHANGED <<engine, recipients, logs, batchIndex, chunkIndex, createdLogs,
                 workers, bulkUpdates, cnt, bcnt, fallbackIdx, persisted, started,
                 msgType, attempted, gw, bulkFailed, completedAtSets, runs,
                 apiErrors, received, input, output, sectionPDF, requests>>

\* The head of one iteration of the batch loop: the QUEUED records of the
\* batch are built and bulk-inserted (MessageLogModel.insertMany).
InsertLogs ==
  /\ pc = "batch"
  /\ batchIndex < Len(batches)
  /\ \E ok \in StorageOutcomes :
       /\ faults' = faults + Thrown(ok)
       /\ engineFault' = FirstFault(ok, "insertMany")
       /\ IF ok
          THEN /\ logs' = logs \o [k \in 1..Len(batch) |-> NewLog(batchIndex)]
               /\ createdLogs' = [k \in 1..Len(batch) |-> Len(logs) + k]
               /\ workers' = [k \in 1..Len(batch) |-> IdleWorker]
               /\ pc' = "chunk"
          ELSE /\ UNCHANGED <<logs, createdLogs, workers>>
               /\ pc' = OnFault
  /\ chunkIndex' = 0
  /\ bulkUpdates' = <<>>
  /\ bcnt' = ZeroCounts
  /\ UNCHANGED <<engine, recipients, op, doc, batchIndex, cnt, fallbackIdx,
                 persisted, started,
                 msgType, attempted, gw, bulkFailed, completedAtSets, runs,
                 apiErrors, received, input, output, sectionPDF, requests>>

\* chunk.map(async ...) : every callback of the chunk runs up to its first
\* await, which is the gateway call.
StartChunk ==
  /\ pc = "chunk"
  /\ workers' = [k \in 1..Len(workers) |->
                   IF (k - 1) \in ChunkPositions(chunkIndex)
                   THEN [workers[k] EXCEPT !.st = "sending", !.calls = 1]
                   ELSE workers[k]]
  /\ attempted' = attempted \cup {GlobalIndex(p) : p \in ChunkPositions(chunkIndex)}
  /\ pc' = "await"
  /\ UNCHANGED <<engine, recipients, op, doc, logs, batchIndex, chunkIndex,
                 createdLogs, bulkUpdates, cnt, bcnt, fallbackIdx, faults,
                 engineFault, persisted, started,
                 msgType, gw, bulkFailed, completedAtSets, runs,
                 apiErrors, received, input, output, sectionPDF, requests>>

\* The update a worker pushes when it closes its recipient. pos is the batch
\* position of the worker that produced it.
OutcomeUpdate(p, success, kind, wa) ==
  [id |-> WorkerLog(p), pos |-> p,
   status |-> IF success THEN "SENT" ELSE "FAILED",
   error |-> ErrorDetail(kind),
   waMessageId |-> IF success THEN wa ELSE 0]

\* The gateway call of the worker at position p returns or throws.
GatewayReturn(p) ==
  /\ pc = "await"
  /\ p \in Positions
  /\ workers[p + 1].st = "sending"
  /\ \E raw \in ApiAnswers :
       /\ apiErrors' = IF apiErrors > 0 /\ raw # "accepted" THEN apiErrors - 1 ELSE apiErrors
       /\ LET res == Send(msgType, raw)
              out == res.kind
              w == workers[p + 1]
              seen == [w EXCEPT !.first = IF w.first = "none" THEN out ELSE @,
                                !.allTransient = (@ /\ out = "transient")]
          IN IF ~res.threw
             THEN /\ workers' = [workers EXCEPT ![p + 1] = [seen EXCEPT !.st = "done", !.success = TRUE]]
                  /\ bulkUpdates' = Append(bulkUpdates, OutcomeUpdate(p, TRUE, out, ReturnedId(res, p)))
                  /\ gw' = [gw EXCEPT !.ok = @ + 1]
             ELSE IF WillRetry(w.retries + 1)
             THEN /\ workers' = [workers EXCEPT ![p + 1] =
                                   [seen EXCEPT !.st = "backoff", !.retries = @ + 1]]
                  /\ UNCHANGED <<bulkUpdates, gw>>
             ELSE /\ workers' = [workers EXCEPT ![p + 1] =
                                   [seen EXCEPT !.st = "done", !.success = FALSE,
                                                !.retries = IF engine = "service" THEN @ + 1 ELSE @]]
                  /\ bulkUpdates' = Append(bulkUpdates, OutcomeUpdate(p, FALSE, out, 0))
                  /\ gw' = [gw EXCEPT !.failed = @ + 1]
  /\ UNCHANGED <<engine, recipients, pc, op, doc, logs, batchIndex, chunkIndex,
                 createdLogs, cnt, bcnt, fallbackIdx, faults, engineFault,
                 persisted, started,
                 msgType, attempted, bulkFailed, completedAtSets, runs,
                 received, input, output, sectionPDF, requests>>

\* setTimeout(resolve, Math.pow(2, retries) * 1000) fires: the next attempt.
BackoffElapsed(p) ==
  /\ pc = "await"
  /\ p \in Positions
  /\ workers[p + 1].st = "backoff"
  /\ workers' = [workers EXCEPT ![p + 1] =
                   [@ EXCEPT !.st = "sending", !.calls = @ + 1, !.backoffs = @ + 1]]
  /\ UNCHANGED <<engine, recipients, pc, op, doc, logs, batchIndex, chunkIndex,
                 createdLogs, bulkUpdates, cnt, bcnt, fallbackIdx, faults,
                 engineFault, persisted, started,
                 msgType, attempted, gw, bulkFailed, completedAtSets, runs,
                 apiErrors, received, input, output, sectionPDF, requests>>


\* The chunk loop goes on without waiting for the promises of the chunk.
AllSettledNotAwaited(c) == TRUE

\* await Promise.allSettled(promises): every worker of the chunk has returned.
AllSettled(c) == \A p \in ChunkPositions(c) : workers[p + 1].st = "done"

\* Every result of the chunk is counted as a success.
ChunkSuccessAll(c) == Cardinality(ChunkPositions(c))

\* results.forEach: successCount++ for a fulfilled result with success,
\* failedCount++ for every other result.
ChunkSuccess(c) == Cardinality({p \in ChunkPositions(c) : workers[p + 1].success})

\* Only rejected promises are counted as failed; no promise of a chunk rejects.
ChunkFailedRejectedOnly(c) == 0

ChunkFailed(c) == Cardinality({p \in ChunkPositions(c) : ~workers[p + 1].success})

\* The bulk update is started but not awaited.
AfterChunksNotAwaited == "checkpoint"

\* The position after the last chunk: if (bulkUpdates.length > 0) bulkWrite.
AfterChunks == IF Len(bulkUpdates) > 0 THEN "bulkWrite" ELSE "checkpoint"

\* The chunk has settled; its results are counted, and the loop goes to the
\* next chunk (after the 25 ms pause) or leaves the chunk loop. The service
\* counts into the counters of processBatchWithConcurrency, the route into
\* the counters of the run.
FoldChunk ==
  /\ pc = "await"
  /\ AllSettled(chunkIndex)
  /\ IF engine = "service"
     THEN /\ bcnt' = [bcnt EXCEPT !.success = @ + ChunkSuccess(chunkIndex),
                                  !.failed = @ + ChunkFailed(chunkIndex)]
          /\ UNCHANGED cnt
     ELSE /\ cnt' = [cnt EXCEPT !.success = @ + ChunkSuccess(chunkIndex),
                                !.failed = @ + ChunkFailed(chunkIndex)]
          /\ UNCHANGED bcnt
  /\ workers' = [k \in 1..Len(workers) |->
                   IF (k - 1) \in ChunkPositions(chunkIndex) /\ workers[k].st = "done"
                   THEN [IdleWorker EXCEPT !.st = "folded"]
                   ELSE workers[k]]
  /\ chunkIndex' = chunkIndex + 1
  /\ pc' = IF chunkIndex + 1 < Len(concurrencyChunks) THEN "chunk" ELSE AfterChunks
  /\ UNCHANGED <<engine, recipients, op, doc, logs, batchIndex, createdLogs,
                 bulkUpdates, fallbackIdx, faults, engineFault, persisted, started,
                 msgType, attempted, gw, bulkFailed, completedAtSets, runs,
                 apiErrors, received, input, output, sectionPDF, requests>>

\* await MessageLogModel.bulkWrite(bulkUpdates). When it throws the service
\* falls back to one update per record, the route only logs the error.
BulkWrite ==
  /\ pc = "bulkWrite"
  /\ \E ok \in StorageOutcomes :
       /\ faults' = faults + Thrown(ok)
       /\ logs' = IF ok THEN ApplyAll(logs, bulkUpdates) ELSE logs
       /\ bulkFailed' = IF ok THEN bulkFailed ELSE bulkFailed \cup {batchIndex}
       /\ IF ok \/ engine = "route"
          THEN /\ pc' = "checkpoint"
               /\ persisted' = persisted \cup {batchIndex}
               /\ UNCHANGED fallbackIdx
          ELSE /\ pc' = "fallback"
               /\ fallbackIdx' = 1
               /\ UNCHANGED persisted
  /\ UNCHANGED <<engine, recipients, op, doc, batchIndex, chunkIndex, createdLogs,
                 workers, bulkUpdates, cnt, bcnt, engineFault, started,
                 msgType, attempted, gw, completedAtSets, runs,
                 apiErrors, received, input, output, sectionPDF, requests>>

\* One round of the fallback loop: findByIdAndUpdate of one update, whose
\* failure is logged and skipped.
FallbackUpdate ==
  /\ pc = "fallback"
  /\ \E ok \in StorageOutcomes :
       /\ faults' = faults + Thrown(ok)
       /\ logs' = IF ok THEN ApplyUpdate(logs, bulkUpdates[fallbackIdx]) ELSE logs
  /\ IF fallbackIdx < Len(bulkUpdates)
     THEN /\ fallbackIdx' = fallbackIdx + 1
          /\ UNCHANGED <<pc, persisted>>
     ELSE /\ fallbackIdx' = 0
          /\ pc' = "checkpoint"
          /\ persisted' = persisted \cup {batchIndex}
  /\ UNCHANGED <<engine, recipients, op, doc, batchIndex, chunkIndex, createdLogs,
                 workers, bulkUpdates, cnt, bcnt, engineFault, started,
                 msgType, attempted, gw, bulkFailed, completedAtSets, runs,
                 apiErrors, received, input, output, sectionPDF, requests>>

\* The counts a batch adds to the counters of the run. The service adds what
\* processBatchWithConcurrency returns; the route adds batch.length to
\* processedCount, its other two counters were advanced chunk by chunk.
BatchResult ==
  IF engine = "service"
  THEN [processed |-> Len(batch), success |-> bcnt.success, failed |-> bcnt.failed]
  ELSE [processed |-> Len(batch), success |-> 0, failed |-> 0]

\* A counter that is set to the count of the last batch.
Overwrite(total, add) == add

\* processedCount += batchResults.processed, and the like.
Accumulate(total, add) == total + add

\* Only the last batch is followed by a save.
ShouldSaveLastOnly(bi) == bi = Len(batches) - 1

\* if (batchIndex % 3 === 0 || batchIndex === batches.length - 1) save
ShouldSave(bi) == bi % 3 = 0 \/ bi = Len(batches) - 1

\* The tail of one iteration of the batch loop: the counters are advanced,
\* copied to the document and, on a checkpoint, saved.
Checkpoint ==
  /\ pc = "checkpoint"
  /\ cnt' = [processed |-> Accumulate(cnt.processed, BatchResult.processed),
             success |-> Accumulate(cnt.success, BatchResult.success),
             failed |-> Accumulate(cnt.failed, BatchResult.failed)]
  /\ doc' = [doc EXCEPT !.processedCount = cnt'.processed,
                        !.successCount = cnt'.success,
                        !.failedCount = cnt'.failed]
  /\ IF ShouldSave(batchIndex)
     THEN \E ok \in StorageOutcomes :
            /\ faults' = faults + Thrown(ok)
            /\ engineFault' = FirstFault(ok, "checkpoint")
            /\ op' = IF ok THEN doc' ELSE op
            /\ pc' = IF ok THEN "batch" ELSE OnFault
            /\ batchIndex' = IF ok THEN batchIndex + 1 ELSE batchIndex
     ELSE /\ pc' = "batch"
          /\ batchIndex' = batchIndex + 1
          /\ UNCHANGED <<faults, engineFault, op>>
  /\ UNCHANGED <<engine, recipients, logs, chunkIndex, createdLogs, workers,
                 bulkUpdates, bcnt, fallbackIdx, persisted, started,
                 msgType, attempted, gw, bulkFailed, completedAtSets, runs,
                 apiErrors, received, input, output, sectionPDF, requests>>

\* A status that depends on the recipients' outcomes.
TerminalStatusByFailures == IF cnt.failed > 0 THEN "FAILED" ELSE "COMPLETED"

\* bulkOperation.status = 'COMPLETED': the status written after the batch
\* loop, whatever the counters are.
TerminalStatus == "COMPLETED"

\* The statements after the COMPLETED save throw inside the try block.
AfterCompletedThrows(ok) == OnFault

\* Where the run goes after the COMPLETED save: nothing that can throw
\* follows the save inside the try block; a save that throws goes to the
\* catch.
AfterCompleted(ok) == IF ok THEN "done" ELSE OnFault

\* After the batch loop: status = 'COMPLETED', completedAt = new Date(), save.
Complete ==
  /\ pc = "batch"
  /\ batchIndex >= Len(batches)
  /\ doc' = [doc EXCEPT !.status = TerminalStatus, !.completedAt = TRUE]
  /\ completedAtSets' = completedAtSets + 1
  /\ \E ok \in StorageOutcomes :
       /\ faults' = faults + Thrown(ok)
       /\ engineFault' = FirstFault(ok, "completed")
       /\ op' = IF ok THEN doc' ELSE op
       /\ pc' = AfterCompleted(ok)
  /\ UNCHANGED <<engine, recipients, logs, batchIndex, chunkIndex, createdLogs,
                 workers, bulkUpdates, cnt, bcnt, fallbackIdx, persisted, started,
                 msgType, attempted, gw, bulkFailed, runs,
                 apiErrors, received, input, output, sectionPDF, requests>>

\* The catch block of processBulkMessagesInBackground: status = 'FAILED',
\* error = String(error), completedAt = new Date(), save. A save that throws
\* here is an unhandled rejection of the background task.
Fail ==
  /\ pc = "catch"
  /\ doc' = [doc EXCEPT !.status = "FAILED", !.error = "Error: storage",
                        !.completedAt = TRUE]
  /\ completedAtSets' = completedAtSets + 1
  /\ \E ok \in StorageOutcomes :
       /\ faults' = faults + Thrown(ok)
       /\ op' = IF ok THEN doc' ELSE op
  /\ pc' = "done"
  /\ UNCHANGED <<engine, recipients, logs, batchIndex, chunkIndex, createdLogs,
                 workers, bulkUpdates, cnt, bcnt, fallbackIdx, engineFault,
                 persisted, started,
                 msgType, attempted, gw, bulkFailed, runs,
                 apiErrors, received, input, output, sectionPDF, requests>>

\* MessageLogSchema.methods.updateStatus(newStatus, error) as the webhook
\* calls it, without the error argument: the status is assigned, the error
\* and retryCount branch is not taken.
updateStatus(log, newStatus) == [log EXCEPT !.status = newStatus]

\* The statuses a callback of the WhatsApp API maps to.
WebhookStatuses == {"SENT", "DELIVERED", "READ", "FAILED"}

\* MessageLogModel.findOne({ waMessageId }): the first record with that id.
FindByWaMessageId(id) ==
  CHOOSE k \in DOMAIN logs :
    logs[k].waMessageId = id /\ \A j \in 1..(k - 1) : logs[j].waMessageId # id

\* The message ids the API has returned and a callback can name: those of
\* the outcome updates of the current batch and those stored on a record.
IssuedIds ==
  {bulkUpdates[i].waMessageId : i \in DOMAIN bulkUpdates}
    \cup {logs[k].waMessageId : k \in DOMAIN logs}

\* POST /webhook/whatsapp with one status entry for a message the API has
\* accepted: the record with that waMessageId is looked up and, when found,
\* updated; when none is found the entry is logged and skipped.
Webhook(id, newStatus) ==
  /\ id \in IssuedIds
  /\ received' = {r \in received : r[1] # id} \cup {<<id, newStatus>>}
  /\ IF \E k \in DOMAIN logs : logs[k].waMessageId = id
     THEN logs' = [logs EXCEPT ![FindByWaMessageId(id)] = updateStatus(@, newStatus)]
     ELSE UNCHANGED logs
  /\ UNCHANGED <<engine, recipients, pc, op, doc, batchIndex, chunkIndex,
                 createdLogs, workers, bulkUpdates, cnt, bcnt, fallbackIdx, faults,
                 engineFault, persisted, started, msgType, attempted, gw,
                 bulkFailed, completedAtSets, runs, apiErrors, input, output, sectionPDF, requests>>

\* processBulkMessagesInBackground(operationId, mobileNumbers, messageData)
\* is invoked again for an Operation whose run has ended: its locals start
\* afresh, the Operation is read again from the store.
Rerun ==
  /\ engine = "service"
  /\ pc = "done"
  /\ started
  /\ runs < MaxRuns
  /\ runs' = runs + 1
  /\ pc' = "find"
  /\ batchIndex' = 0
  /\ chunkIndex' = 0
  /\ createdLogs' = <<>>
  /\ workers' = <<>>
  /\ bulkUpdates' = <<>>
  /\ cnt' = ZeroCounts
  /\ bcnt' = ZeroCounts
  /\ fallbackIdx' = 0
  /\ engineFault' = "none"
  /\ persisted' = {}
  /\ bulkFailed' = {}
  /\ UNCHANGED <<engine, recipients, op, doc, logs, faults, started, msgType,
                 attempted, gw, completedAtSets,
                 apiErrors, received, input, output, sectionPDF, requests>>

\* BulkOperationModel.findById(operationId): what a poll of the status
\* returns is the stored record.
getBulkOperationStatus == op

\* The batch positions a worker can have: the runs modelled have no batch
\* longer than a batch of the route.
AllPositions == 0..(RouteConfig.BATCH_SIZE - 1)

Next ==
  \/ CreateOperation
  \/ FindOperation
  \/ SaveProcessing
  \/ InsertLogs
  \/ StartChunk
  \/ \E p \in AllPositions : GatewayReturn(p)
  \/ \E p \in AllPositions : BackoffElapsed(p)
  \/ FoldChunk
  \/ BulkWrite
  \/ FallbackUpdate
  \/ Checkpoint
  \/ Complete
  \/ Fail

Spec == Init /\ [][Next]_vars

\* The run of the service alone.
InitService == Init /\ engine = "service"

SpecService == InitService /\ [][Next]_vars

\* Short runs with every send function the message data can select.
InitGateway ==
  /\ Start
  /\ NoCall
  /\ NoRequests
  /\ AnyApi
  /\ Len(recipients) <= MaxSmallRecipients
  /\ msgType \in (IF engine = "route" THEN {"DOCUMENT_ID"} ELSE MessageTypes)

SpecGateway == InitGateway /\ [][Next]_vars

\* Short runs during which status callbacks of the WhatsApp API arrive.
InitSmall == Init /\ Len(recipients) <= MaxSmallRecipients

NextWebhook ==
  \/ Next
  \/ \E id \in 1..MaxSmallRecipients, newStatus \in WebhookStatuses : Webhook(id, newStatus)

SpecWebhook == InitSmall /\ [][NextWebhook]_vars

\* Long runs, of up to four batches. The service runs over the lists that
\* end in a batch of one recipient after whole batches, while the API gives
\* at most MaxApiErrors error answers; the route runs over the list of three
\* whole batches and one recipient, while the API accepts every message.
LongLists ==
  IF engine = "service"
  THEN {RecipientList(n, FALSE) : n \in {m \in 1..MaxLongRecipients : m % 5 = 1}}
  ELSE {RecipientList(3 * RouteConfig.BATCH_SIZE + 1, FALSE)}

InitLong ==
  /\ engine \in {"service", "route"}
  /\ recipients \in LongLists
  /\ Fresh
  /\ NoCall
  /\ NoRequests
  /\ apiErrors = IF engine = "service" THEN MaxApiErrors ELSE 0
  /\ msgType = IF engine = "route" THEN "DOCUMENT_ID" ELSE "TEXT"

SpecLong == InitLong /\ [][Next]_vars

\* Short runs of the service whose run loop is invoked again after its end.
InitRerun == InitService /\ Len(recipients) <= MaxSmallRecipients

NextRerun ==
  \/ Next
  \/ Rerun

SpecRerun == InitRerun /\ [][NextRerun]_vars


(***************************************************************************)
(* Properties.                                                             *)
(***************************************************************************)
InFlight == {k \in DOMAIN workers : workers[k].st = "sending"}

ChunkOf(k) == (k - 1) \div config.CONCURRENCY_LIMIT

\* C1: in every state of the stored Operation record, processedCount equals
\* successCount + failedCount and does not exceed totalRecipients, for every
\* mix of gateway outcomes and wherever a storage call throws.
C1_StoredCountersConsistent ==
  /\ op.processedCount = op.successCount + op.failedCount
  /\ op.processedCount <= op.totalRecipients

\* A FAILED record saved after a checkpoint that counted successes and failures.
C1_Witness ==
  /\ op.status = "FAILED"
  /\ op.successCount > 0
  /\ op.failedCount > 0
  /\ op.processedCount < op.totalRecipients

\* C2: the outcome update produced by the worker at batch position p targets
\* the record that insertMany created for position p.
C2_UpdateTargetsOwnRecord ==
  \A i \in DOMAIN bulkUpdates :
    bulkUpdates[i].id = createdLogs[bulkUpdates[i].pos + 1]

\* C3: a recipient whose first gateway attempt fails with a permanent error
\* is attempted once, is not put into a backoff wait and is closed as failed.
C3_PermanentNotRetried ==
  \A k \in DOMAIN workers :
    workers[k].first = "permanent" =>
      /\ workers[k].calls = 1
      /\ workers[k].backoffs = 0
      /\ workers[k].st = "done"
      /\ ~workers[k].success

\* C4: a recipient all of whose attempts fail with a transient error is
\* attempted exactly 3 times and closed with a FAILED update that carries a
\* non-empty error detail; a recipient whose attempt k succeeds has had k
\* attempts (k - 1 failures) and is closed with a SENT update; nobody is
\* attempted more than 3 times.
C4_RetryLaw ==
  \A k \in DOMAIN workers :
    LET w == workers[k]
        own == {i \in DOMAIN bulkUpdates : bulkUpdates[i].pos = k - 1}
    IN /\ w.calls <= 3
       /\ (w.st = "done" /\ w.allTransient =>
             /\ w.calls = 3
             /\ ~w.success
             /\ Cardinality(own) = 1
             /\ \A i \in own : bulkUpdates[i].status = "FAILED" /\ bulkUpdates[i].error # "")
       /\ (w.st = "done" /\ w.success =>
             /\ w.calls = w.retries + 1
             /\ Cardinality(own) = 1
             /\ \A i \in own : bulkUpdates[i].status = "SENT")
       /\ (w.st \in {"sending", "backoff"} => own = {})

\* Two workers of one chunk: one has failed three times with transient
\* errors, the other has succeeded on its third attempt.
C4_Witness ==
  \E k, j \in DOMAIN workers :
    /\ workers[k].st = "done" /\ workers[k].allTransient /\ workers[k].calls = 3
    /\ workers[j].st = "done" /\ workers[j].success /\ workers[j].calls = 3

\* C5: when no storage call throws, the run ends with the stored status
\* COMPLETED, whatever the gateway did.
C5_RecipientFailuresNeverFailRun ==
  (pc = "done" /\ faults = 0) => op.status = "COMPLETED"

\* A finished run in which every one of several recipients failed.
C5_Witness ==
  /\ pc = "done"
  /\ faults = 0
  /\ op.totalRecipients >= 3
  /\ op.failedCount = op.totalRecipients


\* C6: after an engine-level fault inside the batch loop (the bulk insert of
\* a batch, a checkpoint save or the COMPLETED save throws) the run ends with
\* the stored record FAILED, a non-empty error message and completedAt set.
C6_FaultEndsFailed ==
  (pc = "done" /\ engineFault \in {"insertMany", "checkpoint", "completed"}) =>
    /\ op.status = "FAILED"
    /\ op.error # ""
    /\ op.completedAt

\* C7: the stored status follows PENDING -> PROCESSING -> COMPLETED or
\* PENDING -> PROCESSING -> FAILED; the record is created PENDING with the
\* three counters 0; a COMPLETED or FAILED record never changes again.
C7_StatusPath ==
  [][/\ (op.status = "NONE" /\ op'.status # "NONE" =>
           /\ op'.status = "PENDING"
           /\ op'.processedCount = 0
           /\ op'.successCount = 0
           /\ op'.failedCount = 0)
     /\ (op'.status # op.status =>
           <<op.status, op'.status>> \in
             {<<"NONE", "PENDING">>, <<"PENDING", "PROCESSING">>,
              <<"PROCESSING", "COMPLETED">>, <<"PROCESSING", "FAILED">>})
     /\ (op.status \in {"COMPLETED", "FAILED"} => op' = op)]_vars

\* The save of the COMPLETED state has thrown and the catch block has stored
\* FAILED over a PROCESSING record.
C7_Witness ==
  /\ pc = "done"
  /\ op.status = "FAILED"
  /\ batchIndex = Len(batches)
  /\ op.processedCount = op.totalRecipients
  /\ op.totalRecipients > 0

\* C8: a run that was created and started ends with a terminal status in the
\* store.
C8_EndsTerminal ==
  (pc = "done" /\ started) => op.status \in {"COMPLETED", "FAILED"}

\* C9: at most concurrencyWidth gateway calls are in flight, and a worker of
\* a chunk has started only when every worker of the earlier chunks of the
\* batch has settled and been counted.
C9_BoundedInFlight ==
  /\ Cardinality(InFlight) <= config.CONCURRENCY_LIMIT
  /\ \A k, j \in DOMAIN workers :
       (ChunkOf(k) < ChunkOf(j) /\ workers[j].st # "idle") => workers[k].st = "folded"

\* A later chunk of a batch with a full width of calls in flight.
C9_Witness ==
  /\ Cardinality(InFlight) = config.CONCURRENCY_LIMIT
  /\ \E k \in InFlight : ChunkOf(k) >= 1

\* C10: a record of batch N + 1 is in the store, or a send of batch N + 1 is
\* under way, only when the outcome persistence of every earlier batch has
\* finished; and the insert of a batch happens only when every worker of the
\* batch before has settled.
C10_BatchesInOrder ==
  /\ [](/\ \A i \in DOMAIN logs : \A b \in 0..(logs[i].batchNo - 1) : b \in persisted
        /\ (\E k \in DOMAIN workers : workers[k].st \in {"sending", "backoff"}) =>
              (\A b \in 0..(batchIndex - 1) : b \in persisted))
  /\ [][Len(logs') > Len(logs) =>
          \A k \in DOMAIN workers : workers[k].st = "folded"]_vars

\* A send of the second batch is in flight.
C10_Witness ==
  /\ batchIndex = 1
  /\ InFlight # {}
  /\ \E i \in DOMAIN logs : logs[i].batchNo = 1

\* C11: the records of a batch are inserted, one per recipient of the batch
\* and all QUEUED, before any gateway call of the batch: while the batch is
\* being dispatched the store holds one QUEUED record for each of its
\* positions, every recipient that has been given a gateway call has its
\* record, and an insert that throws is followed by no gateway call.
C11_QueuedBeforeDispatch ==
  /\ attempted \subseteq DOMAIN logs
  /\ pc \in {"chunk", "await"} =>
       /\ Len(createdLogs) = Len(batch)
       /\ \A k \in 1..Len(batch) :
            /\ createdLogs[k] = GlobalIndex(k - 1)
            /\ createdLogs[k] \in DOMAIN logs
            /\ logs[createdLogs[k]].status = "QUEUED"
            /\ logs[createdLogs[k]].batchNo = batchIndex
  /\ engineFault = "insertMany" =>
       \A i \in attempted : i <= batchIndex * config.BATCH_SIZE

\* The second chunk of a batch is being dispatched: a call is in flight,
\* outcomes of the first chunk wait for the bulk update, and no record of the
\* batch has left QUEUED.
C11_Witness ==
  /\ pc = "await"
  /\ chunkIndex = 1
  /\ InFlight # {}
  /\ bulkUpdates # <<>>
  /\ \A k \in DOMAIN createdLogs : logs[createdLogs[k]].status = "QUEUED"

\* The order of the statuses of a Dispatch Record: QUEUED, then SENT or
\* FAILED, then DELIVERED, then READ.
StatusRank(status) ==
  CASE status = "QUEUED" -> 0
    [] status = "SENT" -> 1
    [] status = "FAILED" -> 1
    [] status = "DELIVERED" -> 2
    [] status = "READ" -> 3

\* C12: under every interleaving of engine outcome writes and status
\* callbacks, no step moves the status of a stored Dispatch Record backward
\* along QUEUED < SENT < DELIVERED < READ: a record at DELIVERED or READ is
\* not set back to SENT, FAILED or QUEUED, and a record at SENT or FAILED is
\* not returned to QUEUED.
C12_StatusNeverMovesBackward ==
  [][\A k \in DOMAIN logs :
       StatusRank(logs'[k].status) >= StatusRank(logs[k].status)]_vars

\* C13: a gateway response without a message id is never counted as success.
\* With each of the four send functions, every outcome update that sets a
\* record to SENT carries the non-empty id the gateway returned to the worker
\* that pushed it, every stored record at SENT has a non-empty id, and the
\* number of workers closed as sent is the number of SENT updates pushed, all
\* of them with an id.
C13_SuccessHasMessageId ==
  /\ \A i \in DOMAIN bulkUpdates :
       bulkUpdates[i].status = "SENT" =>
         /\ bulkUpdates[i].waMessageId # 0
         /\ pc \in {"chunk", "await", "bulkWrite", "fallback", "checkpoint"} =>
              bulkUpdates[i].waMessageId = MessageId(bulkUpdates[i].pos)
  /\ \A k \in DOMAIN logs : logs[k].status = "SENT" => logs[k].waMessageId # 0
  /\ \A k \in DOMAIN workers :
       workers[k].st = "done" /\ workers[k].success =>
         \E i \in DOMAIN bulkUpdates :
           /\ bulkUpdates[i].pos = k - 1
           /\ bulkUpdates[i].status = "SENT"
           /\ bulkUpdates[i].waMessageId # 0

\* A document sent by URL is stored as SENT with its id and counted, after
\* another recipient of the run was closed as failed.
C13_Witness ==
  /\ msgType = "DOCUMENT_URL"
  /\ pc = "done"
  /\ op.status = "COMPLETED"
  /\ op.successCount = 1
  /\ op.failedCount = 1
  /\ \E k \in DOMAIN logs : logs[k].status = "SENT" /\ logs[k].waMessageId # 0

\* C14: when a recipient is closed, the outcome write of its worker leaves
\* on the Dispatch Record a retryCount equal to the number of retry attempts
\* made for the recipient, that is its gateway calls minus one.
C14_RetryCountStored ==
  \A i \in DOMAIN bulkUpdates :
    LET u == bulkUpdates[i]
        w == workers[u.pos + 1]
    IN w.st = "done" => ApplyUpdate(logs, u)[u.id].retryCount = w.calls - 1

TerminalStatuses == {"COMPLETED", "FAILED"}

\* C15: in every run completedAt of the Operation is assigned at most once,
\* only together with a terminal status, and a stored terminal record has
\* had exactly one assignment; the run whose COMPLETED save throws included.
C15_CompletedAtSetOnce ==
  /\ completedAtSets <= 1
  /\ completedAtSets >= 1 => doc.status \in TerminalStatuses
  /\ op.status \in TerminalStatuses => op.completedAt /\ completedAtSets = 1

\* C16: once the stored Operation is COMPLETED or FAILED, no step of a
\* further invocation of the run loop changes the Operation record or a
\* Dispatch Record, and none makes a gateway call.
C16_TerminalOperationUntouched ==
  [][op.status \in TerminalStatuses =>
       /\ op' = op
       /\ logs' = logs
       /\ gw' = gw
       /\ \A k \in DOMAIN workers' : workers'[k].st # "sending"]_vars

\* C17: the counters a status poll returns never go down during a run: no
\* step lowers the processedCount, the successCount or the failedCount of
\* the record that getBulkOperationStatus reads.
C17_PollsNonDecreasing ==
  [][/\ getBulkOperationStatus'.processedCount >= getBulkOperationStatus.processedCount
     /\ getBulkOperationStatus'.successCount >= getBulkOperationStatus.successCount
     /\ getBulkOperationStatus'.failedCount >= getBulkOperationStatus.failedCount]_vars

\* A poll during the run, after the checkpoint of the second batch: all
\* three counters have risen, the record is still PROCESSING.
C17_Witness ==
  /\ getBulkOperationStatus.status = "PROCESSING"
  /\ getBulkOperationStatus.processedCount > 5
  /\ getBulkOperationStatus.successCount > 0
  /\ getBulkOperationStatus.failedCount > 0

\* C18: when the bulk update of a batch has thrown, the updates of the batch
\* are applied one by one, so that with no other storage call throwing the
\* store holds every outcome of the batch when the batch returns; the batch
\* returns a count for each of its recipients, and the Operation is not
\* moved to FAILED by it.
C18_BulkFailureFallsBack ==
  batchIndex \in bulkFailed /\ pc = "checkpoint" =>
    /\ faults = 1 => ApplyAll(logs, bulkUpdates) = logs
    /\ BatchResult.processed = Len(batch)
    /\ engine = "service" => BatchResult.success + BatchResult.failed = Len(batch)
    /\ op.status = "PROCESSING"

\* C19: when no storage call throws, a run over n recipients of which k are
\* closed as failed by the gateway (all their attempts threw) and n - k are
\* accepted ends COMPLETED in the store with successCount = n - k,
\* failedCount = k and processedCount = n.
C19_EndCountsMatchOutcomes ==
  pc = "done" /\ faults = 0 =>
    /\ op.status = "COMPLETED"
    /\ gw.ok + gw.failed = Len(recipients)
    /\ op.successCount = gw.ok
    /\ op.failedCount = gw.failed
    /\ op.processedCount = Len(recipients)

\* n = 6, k = 2: a run of two batches that ends COMPLETED with 4 sent and 2
\* failed.
C19_Witness ==
  /\ pc = "done"
  /\ faults = 0
  /\ Len(recipients) = 6
  /\ gw.failed = 2
  /\ op.status = "COMPLETED"
  /\ op.successCount = 4
  /\ op.failedCount = 2

\* C20: no recipient is dropped silently. When the stored Operation is
\* COMPLETED every recipient of the list has been given a gateway call and
\* processedCount is the length of the list; a run that has ended with a
\* recipient never given a gateway call has ended FAILED in the store,
\* because of an engine fault.
C20_NoRecipientDropped ==
  /\ op.status = "COMPLETED" =>
       /\ attempted = 1..Len(recipients)
       /\ op.processedCount = Len(recipients)
  /\ pc = "done" /\ started /\ attempted # 1..Len(recipients) =>
       /\ op.status = "FAILED"
       /\ engineFault # "none"

\* The counts the fold has made so far in the run: the service counts into
\* the counters of the batch, added to those of the run at the checkpoint.
Counted ==
  IF engine = "service"
  THEN [success |-> cnt.success + bcnt.success, failed |-> cnt.failed + bcnt.failed]
  ELSE [success |-> cnt.success, failed |-> cnt.failed]

\* The workers that have returned a result the fold has not counted yet.
Returned(success) ==
  {k \in DOMAIN workers : workers[k].st = "done" /\ workers[k].success = success}

\* C21: a send worker only returns its result: no step of a worker (a gateway
\* call returning or throwing, a backoff wait ending) changes the Operation
\* record, the counters or the stored Dispatch Records; the counters are
\* changed by the fold after the chunk has settled, so that at every point of
\* a batch the counted successes and failures plus the results not yet folded
\* are the outcomes of the workers, in whatever order they completed.
C21_WorkersOnlyReturn ==
  /\ [](pc \in {"chunk", "await", "bulkWrite", "fallback", "checkpoint"} =>
          /\ Counted.success + Cardinality(Returned(TRUE)) = gw.ok
          /\ Counted.failed + Cardinality(Returned(FALSE)) = gw.failed)
  /\ [][pc = "await" /\ pc' = "await" => UNCHANGED <<op, doc, cnt, bcnt, logs>>]_vars

\* A chunk has been folded whose workers completed in the reverse of their
\* positions, one sent and one failed.
C21_Witness ==
  /\ pc = "chunk"
  /\ chunkIndex = 1
  /\ Len(bulkUpdates) = 2
  /\ bulkUpdates[1].pos > bulkUpdates[2].pos
  /\ bulkUpdates[1].status # bulkUpdates[2].status
  /\ Counted.success = 1
  /\ Counted.failed = 1

(***************************************************************************)
(* Helper functions run on their own: the engine is at rest, input holds   *)
(* the name of the function and its arguments, output what it returned.    *)
(***************************************************************************)
MaxListLen == 4
MaxNumber == 3
MaxSize == 3

RunVars == <<received, apiErrors, engine, recipients, pc, op, doc, logs, batchIndex, chunkIndex,
             createdLogs, workers, bulkUpdates, cnt, bcnt, fallbackIdx, faults,
             engineFault, persisted, started, msgType, attempted, gw, bulkFailed,
             completedAtSets, runs>>

AtRest ==
  /\ Start
  /\ AnyApi
  /\ engine = "service"
  /\ recipients = <<>>
  /\ msgType = "TEXT"

\* The lists of at most n numbers.
Lists(n) == UNION {[1..k -> 1..MaxNumber] : k \in 0..n}

RECURSIVE Flatten(_)
Flatten(ss) == IF ss = <<>> THEN <<>> ELSE Head(ss) \o Flatten(Tail(ss))

RECURSIVE SumLen(_)
SumLen(ss) == IF ss = <<>> THEN 0 ELSE Len(Head(ss)) + SumLen(Tail(ss))

\* A list, a batch size and a concurrency width.
InitBatcher ==
  /\ AtRest
  /\ NoRequests
  /\ input \in {<<"split", list, size, width>> :
                  list \in Lists(MaxListLen), size \in 1..MaxSize, width \in 1..MaxSize}
  /\ output = <<>>

\* The batch loop header of processBulkMessagesInBackground:
\*   for (let i = 0; i < mobileNumbers.length; i += config.BATCH_SIZE)
\*     batches.push(mobileNumbers.slice(i, i + config.BATCH_SIZE))
SplitBatches ==
  /\ Len(output) = 0
  /\ output' = <<SplitFrom(input[2], input[3], 0)>>
  /\ UNCHANGED <<RunVars, input, sectionPDF, requests>>

\* The same loop in processBatchWithConcurrency, over each batch with
\* config.CONCURRENCY_LIMIT.
SplitChunks ==
  /\ Len(output) = 1
  /\ output' = Append(output, [b \in DOMAIN output[1] |-> SplitFrom(output[1][b], input[4], 0)])
  /\ UNCHANGED <<RunVars, input, sectionPDF, requests>>

NextBatcher ==
  \/ SplitBatches
  \/ SplitChunks

SpecBatcher == InitBatcher /\ [][NextBatcher]_vars

\* parts is an order-preserving partition of list into parts of size `size`.
IsPartition(parts, list, size) ==
  /\ Flatten(parts) = list
  /\ SumLen(parts) = Len(list)
  /\ \A i \in DOMAIN parts :
       /\ i < Len(parts) => Len(parts[i]) = size
       /\ Len(parts[i]) >= 1
       /\ Len(parts[i]) <= size
  /\ list = <<>> => parts = <<>>

\* C22: for every recipient list and every batch size >= 1 the batches, in
\* order, concatenate to the list, their lengths sum to its length, every
\* batch but the last has batchSize recipients, the last between 1 and
\* batchSize, and the empty list gives no batch; the same holds for the split
\* of every batch into chunks of the concurrency width.
C22_BatcherIsPartition ==
  /\ Len(output) >= 1 => IsPartition(output[1], input[2], input[3])
  /\ Len(output) >= 2 =>
       \A b \in DOMAIN output[1] : IsPartition(output[2][b], output[1][b], input[4])

\* Four different-looking recipients in batches of 3, the batches in chunks
\* of 2: a short last batch and a short last chunk.
C22_Witness ==
  /\ Len(output) = 2
  /\ input[2] = <<1, 2, 3, 1>>
  /\ output[1] = <<(<<1, 2, 3>>), (<<1>>)>>
  /\ output[2][1] = <<(<<1, 2>>), (<<3>>)>>

MaxCount == 1050

\* A recipient count.
InitPlan ==
  /\ AtRest
  /\ NoRequests
  /\ input \in {<<"plan", n>> : n \in 0..MaxCount}
  /\ output = <<>>

\* const config = getOptimalConfig(mobileNumbers.length)
Plan ==
  /\ Len(output) = 0
  /\ output' = <<getOptimalConfig(input[2])>>
  /\ UNCHANGED <<RunVars, input, sectionPDF, requests>>

\* The configuration of a run with one recipient more.
PlanNext ==
  /\ Len(output) = 1
  /\ output' = Append(output, getOptimalConfig(input[2] + 1))
  /\ UNCHANGED <<RunVars, input, sectionPDF, requests>>

NextPlan ==
  \/ Plan
  \/ PlanNext

SpecPlan == InitPlan /\ [][NextPlan]_vars

\* (batchSize, concurrencyWidth, delay) as a triple.
Triple(c) == <<c.BATCH_SIZE, c.CONCURRENCY_LIMIT, c.RATE_LIMIT_DELAY>>

\* C23: plan(n) returns (batchSize, concurrencyWidth, delay) = (5,2,200) for
\* n <= 20, (8,3,150) for n <= 50, (15,5,100) for n <= 200, (25,8,75) for
\* n <= 500, (40,10,50) for n <= 1000 and (60,12,25) above; batchSize *
\* concurrencyWidth > 0, concurrencyWidth <= batchSize, and from n to n + 1
\* batchSize and concurrencyWidth do not fall and the delay does not rise.
C23_PlanTiers ==
  /\ Len(output) >= 1 =>
       LET n == input[2]
           c == output[1]
       IN /\ Triple(c) = (IF n <= 20 THEN <<5, 2, 200>>
                          ELSE IF n <= 50 THEN <<8, 3, 150>>
                          ELSE IF n <= 200 THEN <<15, 5, 100>>
                          ELSE IF n <= 500 THEN <<25, 8, 75>>
                          ELSE IF n <= 1000 THEN <<40, 10, 50>>
                          ELSE <<60, 12, 25>>)
          /\ c.BATCH_SIZE * c.CONCURRENCY_LIMIT > 0
          /\ c.CONCURRENCY_LIMIT <= c.BATCH_SIZE
  /\ Len(output) >= 2 =>
       /\ output[2].BATCH_SIZE >= output[1].BATCH_SIZE
       /\ output[2].CONCURRENCY_LIMIT >= output[1].CONCURRENCY_LIMIT
       /\ output[2].RATE_LIMIT_DELAY <= output[1].RATE_LIMIT_DELAY

\* The step from the fifth tier to the last one: n = 1000 and n + 1.
C23_Witness ==
  /\ Len(output) = 2
  /\ input[2] = 1000
  /\ Triple(output[1]) = <<40, 10, 50>>
  /\ Triple(output[2]) = <<60, 12, 25>>

\* The counters of the run are the counters of the stored Operation record.
StoredIsCurrent ==
  /\ op.processedCount = cnt.processed
  /\ op.successCount = cnt.success
  /\ op.failedCount = cnt.failed

WithStatus(status) == {k \in DOMAIN logs : logs[k].status = status}

\* C25: when a run has ended COMPLETED and no storage call has thrown, the
\* Dispatch Records of the run agree with the counters of the Operation: as
\* many records are SENT as successCount, as many FAILED as failedCount, and
\* none is left QUEUED.
C25_RecordsAgreeWithCounters ==
  pc = "done" /\ op.status = "COMPLETED" /\ faults = 0 =>
    /\ Cardinality(WithStatus("SENT")) = op.successCount
    /\ Cardinality(WithStatus("FAILED")) = op.failedCount
    /\ WithStatus("QUEUED") = {}

\* C26: a delivery-status callback (delivered, read or failed) received for
\* a message the gateway accepted is reflected in the Dispatch Record of the
\* message: once a record carries the id of the message, its status is the
\* one of the last such callback received for that id, also when the
\* callback arrived before the outcome update of the batch stored the id.
C26_CallbackReflected ==
  \A r \in received :
    r[2] \in {"DELIVERED", "READ", "FAILED"} =>
      \A k \in DOMAIN logs : logs[k].waMessageId = r[1] => logs[k].status = r[2]

(***************************************************************************)
(* The routes that send a stored section PDF (src/src/routes/send.ts):     *)
(* POST /send-database-pdf, POST /csv-bulk-database-pdf, POST /clerk-send. *)
(* Each request is one invocation of a handler; the handlers interleave at *)
(* their awaits. A storage call that throws has written nothing.           *)
(***************************************************************************)
MaxPdfRecipients == 6
MaxRequests == 2

\* const BATCH_SIZE = 10; const CONCURRENCY_LIMIT = 5;
PdfConfig == [BATCH_SIZE |-> 10, CONCURRENCY_LIMIT |-> 5]

Routes == {"send-database-pdf", "csv-bulk-database-pdf", "clerk-send"}

\* No MessageLog record exists for the recipient.
NoLog == [status |-> "none", error |-> ""]

\* One async callback of concurrencyBatch.map: its position and its result.
Task(at, success) == [pc |-> at, success |-> success]

\* A request as it arrives: pdfId of the stored PDF, n mobile numbers (the
\* numbers of the CSV file, or the one recipient of the two single routes).
Request(route, n) ==
  [route |-> route, pc |-> "find", n |-> n, i |-> 0, tasks |-> <<>>,
   successCount |-> 0, failedCount |-> 0, operation |-> NoOperation,
   logs |-> [k \in 1..n |-> NoLog], passed |-> FALSE, sends |-> 0,
   answer |-> ""]

\* SectionPDFModel.findOne({ _id: pdfId, department, status: 'UPLOADED' })
FindUploaded == sectionPDF.exists /\ sectionPDF.status = "UPLOADED"

\* What the lookup of the handler answers: "" when the request goes on.
\* clerk-send reads the PDF with findById and tests its status afterwards.
Lookup(route) ==
  IF route = "clerk-send"
  THEN IF ~sectionPDF.exists THEN "PDF not found in database"
       ELSE IF sectionPDF.status # "UPLOADED" THEN "PDF has already been processed"
       ELSE ""
  ELSE IF FindUploaded THEN "" ELSE "PDF not found or already sent"

\* document.save() of the in-memory PDF with its status set: the stored PDF
\* afterwards. Nothing is written when the call throws or the PDF is gone.
SavePdf(status, ok) ==
  IF ok /\ sectionPDF.exists THEN [sectionPDF EXCEPT !.status = status]
  ELSE sectionPDF

\* The callbacks the two nested loops of a batch start: every
\* concurrencyBatch.map(async ...) is called while batchPromises is built,
\* and only Promise.all(batchPromises) is awaited afterwards.
StartTasks(n, i) ==
  [p \in 1..Min(PdfConfig.BATCH_SIZE, n - i) |-> Task("create", FALSE)]

Done(tasks) == \A p \in DOMAIN tasks : tasks[p].pc = "done"

Successes(tasks) == Cardinality({p \in DOMAIN tasks : tasks[p].success})

SetRequest(r, req) == requests' = [requests EXCEPT ![r] = req]

Answer(req, text) == [req EXCEPT !.pc = "done", !.answer = text]

\* The lookup of the PDF and the early return of the handler.
FindPdf(r) ==
  /\ r \in DOMAIN requests
  /\ requests[r].pc = "find"
  /\ LET req == requests[r]
         text == Lookup(req.route)
     IN SetRequest(r, IF text = "" THEN [req EXCEPT !.pc = "upload", !.passed = TRUE]
                      ELSE Answer(req, text))
  /\ UNCHANGED <<RunVars, input, output, sectionPDF>>

\* const mediaId = await uploadMediaFromStream(...). clerk-send calls
\* sendDocumentByMediaId next; its upload is outside its inner try.
Upload(r) ==
  /\ r \in DOMAIN requests
  /\ requests[r].pc = "upload"
  /\ \E ok \in BOOLEAN :
       LET req == requests[r]
       IN SetRequest(r,
            IF ~ok
            THEN IF req.route = "clerk-send" THEN Answer(req, "Failed to send PDF")
                 ELSE [req EXCEPT !.pc = "catch"]
            ELSE CASE req.route = "clerk-send" ->
                        [req EXCEPT !.pc = "send", !.sends = @ + 1]
                   [] req.route = "send-database-pdf" -> [req EXCEPT !.pc = "createLog"]
                   [] req.route = "csv-bulk-database-pdf" ->
                        [req EXCEPT !.pc = "createOperation"])
  /\ UNCHANGED <<RunVars, input, output, sectionPDF>>

\* const bulkOperation = await BulkOperationModel.create({... status: 'PENDING'})
PdfCreateOperation(r) ==
  /\ r \in DOMAIN requests
  /\ requests[r].pc = "createOperation"
  /\ \E ok \in BOOLEAN :
       LET req == requests[r]
       IN SetRequest(r,
            IF ok THEN [req EXCEPT !.pc = "saveProcessing",
                                   !.operation = NewOperation(req.n)]
            ELSE [req EXCEPT !.pc = "catch"])
  /\ UNCHANGED <<RunVars, input, output, sectionPDF>>

\* bulkOperation.status = 'PROCESSING'; await bulkOperation.save(); then the
\* first batch is built.
PdfSaveProcessing(r) ==
  /\ r \in DOMAIN requests
  /\ requests[r].pc = "saveProcessing"
  /\ \E ok \in BOOLEAN :
       LET req == requests[r]
       IN SetRequest(r,
            IF ok THEN [req EXCEPT !.pc = "batch",
                                   !.operation.status = "PROCESSING",
                                   !.tasks = StartTasks(req.n, 0)]
            ELSE [req EXCEPT !.pc = "catch"])
  /\ UNCHANGED <<RunVars, input, output, sectionPDF>>

\* MessageLogModel.create({... status: 'QUEUED'}) returns or throws; when it
\* returns the callback calls sendDocumentByMediaId.
PdfCreateLog(r, p) ==
  /\ r \in DOMAIN requests
  /\ requests[r].pc = "batch"
  /\ p \in DOMAIN requests[r].tasks
  /\ requests[r].tasks[p].pc = "create"
  /\ \E ok \in BOOLEAN :
       LET req == requests[r]
       IN SetRequest(r,
            IF ok THEN [req EXCEPT !.tasks[p] = Task("send", FALSE),
                                   !.logs[req.i + p] = [status |-> "QUEUED", error |-> ""],
                                   !.sends = @ + 1]
            ELSE [req EXCEPT !.tasks[p] = Task("done", FALSE)])
  /\ UNCHANGED <<RunVars, input, output, sectionPDF>>

\* sendDocumentByMediaId returns or throws; the catch of the callback only
\* logs the error and returns { success: false }.
PdfSendReturn(r, p) ==
  /\ r \in DOMAIN requests
  /\ requests[r].pc = "batch"
  /\ p \in DOMAIN requests[r].tasks
  /\ requests[r].tasks[p].pc = "send"
  /\ \E raw \in ApiAnswers :
       LET req == requests[r]
           res == sendDocumentByMediaId(raw)
       IN SetRequest(r,
            IF res.threw THEN [req EXCEPT !.tasks[p] = Task("done", FALSE)]
            ELSE [req EXCEPT !.tasks[p] = Task("save", FALSE)])
  /\ UNCHANGED <<RunVars, input, output, sectionPDF>>

\* log.status = 'SENT'; log.waMessageId = ...; await log.save()
PdfSaveLog(r, p) ==
  /\ r \in DOMAIN requests
  /\ requests[r].pc = "batch"
  /\ p \in DOMAIN requests[r].tasks
  /\ requests[r].tasks[p].pc = "save"
  /\ \E ok \in BOOLEAN :
       LET req == requests[r]
       IN SetRequest(r,
            IF ok THEN [req EXCEPT !.tasks[p] = Task("done", TRUE),
                                   !.logs[req.i + p].status = "SENT"]
            ELSE [req EXCEPT !.tasks[p] = Task("done", FALSE)])
  /\ UNCHANGED <<RunVars, input, output, sectionPDF>>

\* await Promise.all(batchPromises) returns; the results are counted, the
\* progress is saved, and the next batch is built or the loop ends.
PdfBatchSettled(r) ==
  /\ r \in DOMAIN requests
  /\ requests[r].pc = "batch"
  /\ Done(requests[r].tasks)
  /\ \E ok \in BOOLEAN :
       LET req == requests[r]
           sc == req.successCount + Successes(req.tasks)
           fc == req.failedCount + Len(req.tasks) - Successes(req.tasks)
           counted == [req EXCEPT !.successCount = sc, !.failedCount = fc]
           next == req.i + PdfConfig.BATCH_SIZE
       IN SetRequest(r,
            IF ~ok THEN [counted EXCEPT !.pc = "catch", !.tasks = <<>>]
            ELSE LET saved == [counted EXCEPT
                                 !.operation.processedCount = Min(next, req.n),
                                 !.operation.successCount = sc,
                                 !.operation.failedCount = fc]
                 IN IF next < req.n
                    THEN [saved EXCEPT !.i = next, !.tasks = StartTasks(req.n, next)]
                    ELSE [saved EXCEPT !.pc = "complete", !.tasks = <<>>])
  /\ UNCHANGED <<RunVars, input, output, sectionPDF>>

\* bulkOperation.status = 'COMPLETED'; completedAt; save. With failed
\* recipients the PDF is kept as UPLOADED and the handler answers.
PdfCompleteOperation(r) ==
  /\ r \in DOMAIN requests
  /\ requests[r].pc = "complete"
  /\ \E ok \in BOOLEAN :
       LET req == requests[r]
           saved == [req EXCEPT !.operation.status = "COMPLETED",
                                !.operation.completedAt = TRUE]
       IN SetRequest(r,
            IF ~ok THEN [req EXCEPT !.pc = "catch"]
            ELSE IF req.failedCount = 0 THEN [saved EXCEPT !.pc = "markSent"]
            ELSE Answer(saved, "Bulk messaging completed"))
  /\ UNCHANGED <<RunVars, input, output, sectionPDF>>

\* sectionPDF.status = 'SENT'; await sectionPDF.save()  (csv-bulk), and
\* pdf.status = 'SENT'; await pdf.save()  (send-database-pdf).
PdfMarkSent(r) ==
  /\ r \in DOMAIN requests
  /\ requests[r].pc = "markSent"
  /\ \E ok \in BOOLEAN :
       LET req == requests[r]
       IN /\ sectionPDF' = SavePdf("SENT", ok)
          /\ SetRequest(r,
               IF ~ok THEN [req EXCEPT !.pc = "catch"]
               ELSE IF req.route = "send-database-pdf" THEN [req EXCEPT !.pc = "delete"]
               ELSE Answer(req, "Bulk messaging completed"))
  /\ UNCHANGED <<RunVars, input, output>>

\* The catch around the upload and the sends: status = 'FAILED', save; the
\* bulk route rethrows, send-database-pdf answers 502.
PdfCatch(r) ==
  /\ r \in DOMAIN requests
  /\ requests[r].pc = "catch"
  /\ \E ok \in BOOLEAN :
       LET req == requests[r]
       IN /\ sectionPDF' = SavePdf("FAILED", ok)
          /\ SetRequest(r,
               IF req.route = "csv-bulk-database-pdf"
               THEN Answer(req, "Failed to process bulk database PDF messaging")
               ELSE IF ok THEN Answer(req, "Failed to send PDF")
               ELSE Answer(req, "Failed to process database PDF"))
  /\ UNCHANGED <<RunVars, input, output>>

\* send-database-pdf: MessageLogModel.create({... status: 'QUEUED'}), then
\* the call of sendDocumentByMediaId.
SingleCreateLog(r) ==
  /\ r \in DOMAIN requests
  /\ requests[r].pc = "createLog"
  /\ \E ok \in BOOLEAN :
       LET req == requests[r]
       IN SetRequest(r,
            IF ok THEN [req EXCEPT !.pc = "send", !.sends = @ + 1,
                                   !.logs[1] = [status |-> "QUEUED", error |-> ""]]
            ELSE [req EXCEPT !.pc = "catch"])
  /\ UNCHANGED <<RunVars, input, output, sectionPDF>>

\* sendDocumentByMediaId returns or throws, in send-database-pdf and in
\* clerk-send.
SingleSendReturn(r) ==
  /\ r \in DOMAIN requests
  /\ requests[r].pc = "send"
  /\ \E raw \in ApiAnswers :
       LET req == requests[r]
           res == sendDocumentByMediaId(raw)
       IN SetRequest(r,
            IF req.route = "clerk-send"
            THEN [req EXCEPT !.pc = IF res.threw THEN "saveFailedLog" ELSE "update"]
            ELSE [req EXCEPT !.pc = IF res.threw THEN "catch" ELSE "saveLog"])
  /\ UNCHANGED <<RunVars, input, output, sectionPDF>>

\* send-database-pdf: log.status = 'SENT'; await log.save()
SingleSaveLog(r) ==
  /\ r \in DOMAIN requests
  /\ requests[r].pc = "saveLog"
  /\ requests[r].route = "send-database-pdf"
  /\ \E ok \in BOOLEAN :
       LET req == requests[r]
       IN SetRequest(r,
            IF ok THEN [req EXCEPT !.pc = "markSent", !.logs[1].status = "SENT"]
            ELSE [req EXCEPT !.pc = "catch"])
  /\ UNCHANGED <<RunVars, input, output, sectionPDF>>

\* deletePDFFromDatabase(pdfId): findByIdAndDelete, every error swallowed.
DeletePdf(r) ==
  /\ r \in DOMAIN requests
  /\ requests[r].pc = "delete"
  /\ \E ok \in BOOLEAN :
       /\ sectionPDF' = IF ok THEN [sectionPDF EXCEPT !.exists = FALSE] ELSE sectionPDF
       /\ SetRequest(r, Answer(requests[r],
                               "PDF sent successfully and removed from database"))
  /\ UNCHANGED <<RunVars, input, output>>

\* clerk-send: SectionPDFModel.findByIdAndUpdate(pdfId, { status: 'SENT' }),
\* inside the try whose catch writes a FAILED record.
ClerkUpdatePdf(r) ==
  /\ r \in DOMAIN requests
  /\ requests[r].pc = "update"
  /\ \E ok \in BOOLEAN :
       /\ sectionPDF' = SavePdf("SENT", ok)
       /\ SetRequest(r, [requests[r] EXCEPT !.pc = IF ok THEN "saveLog"
                                                   ELSE "saveFailedLog"])
  /\ UNCHANGED <<RunVars, input, output>>

\* clerk-send: new MessageLogModel({... status: 'SENT'}).save()
ClerkSaveLog(r) ==
  /\ r \in DOMAIN requests
  /\ requests[r].pc = "saveLog"
  /\ requests[r].route = "clerk-send"
  /\ \E ok \in BOOLEAN :
       LET req == requests[r]
       IN SetRequest(r,
            IF ok THEN Answer([req EXCEPT !.logs[1] = [status |-> "SENT", error |-> ""]],
                              "PDF sent successfully via WhatsApp")
            ELSE [req EXCEPT !.pc = "saveFailedLog"])
  /\ UNCHANGED <<RunVars, input, output, sectionPDF>>

\* clerk-send, catch (sendError): new MessageLogModel({... status: 'FAILED',
\* error: sendError.message }).save(); both ways the answer is a 500.
ClerkSaveFailedLog(r) ==
  /\ r \in DOMAIN requests
  /\ requests[r].pc = "saveFailedLog"
  /\ \E ok \in BOOLEAN :
       LET req == requests[r]
       IN SetRequest(r,
            Answer(IF ok THEN [req EXCEPT !.logs[1] = [status |-> "FAILED",
                                                       error |-> ErrorDetail("permanent")]]
                   ELSE req,
                   "Failed to send PDF"))
  /\ UNCHANGED <<RunVars, input, output, sectionPDF>>

RequestIds == 1..MaxRequests

TaskPositions == 1..PdfConfig.BATCH_SIZE

NextPdf ==
  \/ \E r \in RequestIds : FindPdf(r)
  \/ \E r \in RequestIds : Upload(r)
  \/ \E r \in RequestIds : PdfCreateOperation(r)
  \/ \E r \in RequestIds : PdfSaveProcessing(r)
  \/ \E r \in RequestIds, p \in TaskPositions : PdfCreateLog(r, p)
  \/ \E r \in RequestIds, p \in TaskPositions : PdfSendReturn(r, p)
  \/ \E r \in RequestIds, p \in TaskPositions : PdfSaveLog(r, p)
  \/ \E r \in RequestIds : PdfBatchSettled(r)
  \/ \E r \in RequestIds : PdfCompleteOperation(r)
  \/ \E r \in RequestIds : PdfMarkSent(r)
  \/ \E r \in RequestIds : PdfCatch(r)
  \/ \E r \in RequestIds : SingleCreateLog(r)
  \/ \E r \in RequestIds : SingleSendReturn(r)
  \/ \E r \in RequestIds : SingleSaveLog(r)
  \/ \E r \in RequestIds : DeletePdf(r)
  \/ \E r \in RequestIds : ClerkUpdatePdf(r)
  \/ \E r \in RequestIds : ClerkSaveLog(r)
  \/ \E r \in RequestIds : ClerkSaveFailedLog(r)

\* One bulk request over up to MaxPdfRecipients numbers, or two requests of
\* any two routes on the same pdfId, each over up to MaxSmallRecipients.
PdfRequests ==
  {<<Request("csv-bulk-database-pdf", n)>> : n \in 1..MaxPdfRecipients}
    \cup {<<Request(a, IF a = "csv-bulk-database-pdf" THEN na ELSE 1),
            Request(b, IF b = "csv-bulk-database-pdf" THEN nb ELSE 1)>> :
            a \in Routes, b \in Routes,
            na \in 1..MaxSmallRecipients, nb \in 1..MaxSmallRecipients}

InitPdf ==
  /\ AtRest
  /\ NoCall
  /\ sectionPDF = StoredPDF
  /\ requests \in PdfRequests

SpecPdf == InitPdf /\ [][NextPdf]_vars

\* The gateway sends of a request that are in flight: callbacks that have
\* called sendDocumentByMediaId and wait for its answer.
SendsInFlight(req) == {p \in DOMAIN req.tasks : req.tasks[p].pc = "send"}

\* C27: in the csv-bulk-database-pdf route at most CONCURRENCY_LIMIT = 5
\* gateway sends are in flight at any instant, and no recipient of the second
\* group of 5 of a batch is sending before all of the first group have settled.
C27_AtMostFiveInFlight ==
  \A r \in DOMAIN requests :
    LET req == requests[r]
    IN req.route = "csv-bulk-database-pdf" =>
         /\ Cardinality(SendsInFlight(req)) <= PdfConfig.CONCURRENCY_LIMIT
         /\ \A p \in DOMAIN req.tasks, q \in DOMAIN req.tasks :
              (p <= PdfConfig.CONCURRENCY_LIMIT /\ q > PdfConfig.CONCURRENCY_LIMIT
                 /\ req.tasks[q].pc \in {"send", "save", "done"})
                => req.tasks[p].pc = "done"

\* C28: when a csv-bulk-database-pdf request has run to its end and answered
\* 'Bulk messaging completed', every record it created is SENT, or FAILED
\* with an error detail (the record of a recipient counted as failed); none
\* is left QUEUED.
C28_FailedRecordsClosed ==
  \A r \in DOMAIN requests :
    LET req == requests[r]
    IN (req.route = "csv-bulk-database-pdf" /\ req.answer = "Bulk messaging completed") =>
         \A k \in DOMAIN req.logs :
           \/ req.logs[k].status \in {"none", "SENT"}
           \/ req.logs[k].status = "FAILED" /\ req.logs[k].error # ""

\* The request has passed the status check of its route, has handed a send
\* to the gateway and has not been answered yet.
Sending(req) == req.passed /\ req.sends > 0 /\ req.pc # "done"

\* C29: of two requests on the same pdfId that are running at the same time
\* (send-database-pdf, csv-bulk-database-pdf or clerk-send in any
\* combination), at most one passes the status check and reaches the gateway.
C29_OneSenderPerPdf ==
  \A r1 \in DOMAIN requests, r2 \in DOMAIN requests :
    r1 # r2 => ~(Sending(requests[r1]) /\ Sending(requests[r2]))

(***************************************************************************)
(* The recipient number of one dispatch: what is stored in the 'to' field  *)
(* of the record and what the send function is called with. A number is a  *)
(* sequence of characters.                                                 *)
(***************************************************************************)
MaxNumberLen == 11

Digits == {"0", "1", "2", "3", "4", "5", "6", "7", "8", "9"}

\* The characters the numbers of the inputs are made of: a digit and a
\* separator.
Chars == {"9", "-"}

\* number.replace(/\D/g, '')
CleanNumber(number) == SelectSeq(number, LAMBDA c : c \in Digits)

\* isValidMobileNumber: 8 to 15 digits once the other characters are removed.
ValidDigits == [min |-> 8, max |-> 15]

isValidMobileNumber(number) ==
  /\ Len(CleanNumber(number)) >= ValidDigits.min
  /\ Len(CleanNumber(number)) <= ValidDigits.max

\* formatMobileNumber: strip the non-digits, and put "1" in front of a
\* number of exactly 10 digits.
formatMobileNumber(number) ==
  IF Len(CleanNumber(number)) = 10 THEN <<"1">> \o CleanNumber(number)
  ELSE CleanNumber(number)

\* The 'to' field of the record of a recipient: the service formats the
\* number while it builds messageLogs, the route stores it as it is.
StoredTo(path, number) ==
  IF path = "service" THEN formatMobileNumber(number) ELSE number

\* The 'to' argument of the send call: the element of the chunk, the
\* parameter mobileNumber of the callback of chunk.map.
SendTo(path, number) == number

\* The numbers parseCSVBuffer lets through, as they are in the file.
Numbers ==
  UNION {{s \in [1..n -> Chars] : isValidMobileNumber(s)} : n \in 1..MaxNumberLen}

InitAddress ==
  /\ AtRest
  /\ NoRequests
  /\ input \in {<<"dispatch", path, number>> : path \in {"service", "route"}, number \in Numbers}
  /\ output = <<>>

\* One recipient of a batch: its record is built and its send is called.
Dispatch ==
  /\ input # <<>>
  /\ input[1] = "dispatch"
  /\ output = <<>>
  /\ output' = <<StoredTo(input[2], input[3]), SendTo(input[2], input[3])>>
  /\ UNCHANGED <<RunVars, input, sectionPDF, requests>>

NextAddress == Dispatch

SpecAddress == InitAddress /\ [][NextAddress]_vars

\* C30: for every recipient of a bulk run and every input number, the number
\* the gateway send is addressed to equals the 'to' field of the record.
C30_SendMatchesRecord ==
  (output # <<>> /\ input[1] = "dispatch") => output[1] = output[2]
====
